---- MODULE Spec2Model ----
(***************************************************************************)
(* A model of src/app.py: a Flask gateway over a MongoDB database.         *)
(*                                                                         *)
(* The process state is the pair of module globals _client and _db that    *)
(* get_db() initialises lazily.  Flask serves each request on its own      *)
(* thread, so every handler is a small sequential program; the steps of    *)
(* get_db() that read or write the globals are separate actions, and the   *)
(* rest of a handler (which only touches its own locals and the external   *)
(* database) is one action.  The database is an external collaborator:     *)
(* its reachability (dbUp) changes at any time, its contents (store) are   *)
(* fixed during a behaviour because the service never writes.              *)
(***************************************************************************)
EXTENDS Integers, Sequences, FiniteSets, TLC

VARIABLES
    MONGODB_URI,   \* the connection string read from the environment at import
    _client,       \* global _client: None or the id of a MongoClient
    _db,           \* global _db: None or the handle of the client it was taken from
    nclients,      \* number of MongoClient objects constructed so far
    pinged,        \* ids of the clients whose admin ping has succeeded
    first,         \* the handle the first get_db() call to return has returned
    dbUp,          \* whether the database server is reachable right now
    store,         \* the database: collection name -> sequence of documents
    pc,            \* per thread: where its handler is
    req,           \* per thread: the route being served
    late,          \* per thread: its request arrived after a get_db() call had returned
    db,            \* per thread: the handler's local variable db
    data,          \* per thread: the request body the handler has read
    raised,        \* per thread: the exception raised inside the handler, if any
    call,          \* per thread: the driver call the handler issued, if any
    resp           \* per thread: the response produced

vars == <<MONGODB_URI, _client, _db, nclients, pinged, first, dbUp, store,
          pc, req, late, db, data, raised, call, resp>>

globals == <<MONGODB_URI, _client, _db, nclients, pinged, dbUp, store>>

-----------------------------------------------------------------------------
(* Bounds of the model *)

NumThreads == 2
MaxClients == 3
MaxDocs == 26
MaxFindDocs == 6
MaxSkip == 3
MaxLimit == 3
MaxStages == 2

Threads == 1..NumThreads

-----------------------------------------------------------------------------
(* Values *)

None == 0

\* json null, as the value of a "document" field
Null == [null |-> TRUE]

NoExc == [type |-> "none", text |-> ""]
NoCall == [op |-> "none"]
NoData == [unread |-> TRUE]
NoResp == [code |-> 0]

\* Strings whose characters matter are sequences of one-character strings.
Categories == <<"c", "a", "t", "e", "g", "o", "r", "i", "e", "s">>

Placeholder == "mongodb+srv://<username>:<password>@cluster.mongodb.net/"

DATABASE_NAME == "tlb_kitchen_website"

DefaultCollection == "custom-orders"

SearchCap == 24

\* The connection strings a deployment may have: unset (None), empty, the
\* unfilled template, a well-formed mongodb:// or mongodb+srv:// string, and a
\* string MongoClient rejects.
UriUnset == "<None>"
UriBad == {UriUnset, "", Placeholder}
UriGood == {"mongodb://db.example/", "mongodb+srv://cluster.example/"}
UriMalformed == "db.example"
Uris == UriBad \cup UriGood \cup {UriMalformed}

\* A slip: "if MONGODB_URI is None" instead of "if not MONGODB_URI".
UriTruthy_NoneOnly(u) == u # UriUnset

\* Python truthiness of MONGODB_URI: None and "" are falsy.
UriTruthy(u) == u # UriUnset /\ u # ""

Raise(type, text) == [type |-> type, text |-> text]

-----------------------------------------------------------------------------
(* The except clauses of the handlers *)

\* A slip: an except clause that only turns driver errors into JSON, so that
\* any other exception reaches Flask's own error page.
JsonError_DriverErrorsOnly(e) ==
    IF e.type \in {"ServerSelectionTimeoutError", "OperationFailure", "Exception"}
      THEN [code |-> 500, body |-> [error |-> e.text]]
      ELSE [code |-> 500, body |-> [html |-> "Internal Server Error"]]

\* except Exception as e: return jsonify({"error": str(e)}), 500
JsonError(e) == [code |-> 500, body |-> [error |-> e.text]]

\* health()'s except clause
HealthUnhealthy(e) ==
    [code |-> 503,
     body |-> [status |-> "unhealthy", api |-> "running",
               database |-> "disconnected", error |-> e.text]]

Except(route, e) == IF route = "health" THEN HealthUnhealthy(e) ELSE JsonError(e)

\* An exception leaves the try block of thread t's handler: its except clause
\* builds the response.
Fail(t, e) ==
    /\ raised' = [raised EXCEPT ![t] = e]
    /\ resp' = [resp EXCEPT ![t] = Except(req[t], e)]
    /\ pc' = [pc EXCEPT ![t] = "done"]

\* The handler of thread t returns r.
Return(t, r) ==
    /\ resp' = [resp EXCEPT ![t] = r]
    /\ pc' = [pc EXCEPT ![t] = "done"]
    /\ UNCHANGED raised

\* An outcome is [raise |-> e, ...] or [ret |-> r, ...]
Finishes(t, o) ==
    IF "raise" \in DOMAIN o THEN Fail(t, o.raise) ELSE Return(t, o.ret)

-----------------------------------------------------------------------------
(* get_db() *)

FailedToConnect(cause) ==
    Raise("Exception",
          CASE cause = "InvalidURI" -> "Failed to connect to MongoDB: InvalidURI"
            [] cause = "ConfigurationError" -> "Failed to connect to MongoDB: ConfigurationError"
            [] OTHER -> "Failed to connect to MongoDB: ServerSelectionTimeoutError")

\* MongoClient(uri) raises on a string it cannot parse, and a mongodb+srv://
\* string is resolved through DNS in the constructor.
MongoClientRaises(u, up) ==
    \/ u = UriMalformed
    \/ u = "mongodb+srv://cluster.example/" /\ ~up

MongoClientCause(u) == IF u = UriMalformed THEN "InvalidURI" ELSE "ConfigurationError"

\* lines 33-38: the test of _db and the two configuration checks
get_db(t) ==
    /\ pc[t] = "get_db"
    /\ IF _db # None
         THEN /\ pc' = [pc EXCEPT ![t] = "return"]
              /\ UNCHANGED <<raised, resp>>
         ELSE IF ~UriTruthy(MONGODB_URI)
           THEN Fail(t, Raise("ValueError", "MONGODB_URI environment variable is not set"))
           ELSE IF MONGODB_URI = Placeholder
             THEN Fail(t, Raise("ValueError", "Please update MONGODB_URI"))
             ELSE /\ pc' = [pc EXCEPT ![t] = "MongoClient"]
                  /\ UNCHANGED <<raised, resp>>
    /\ UNCHANGED <<globals, first, req, late, db, data, call>>

\* line 41: _client = MongoClient(MONGODB_URI)
NewClient(t) ==
    /\ pc[t] = "MongoClient"
    /\ IF MongoClientRaises(MONGODB_URI, dbUp)
         THEN /\ Fail(t, FailedToConnect(MongoClientCause(MONGODB_URI)))
              /\ UNCHANGED <<_client, nclients>>
         ELSE /\ nclients < MaxClients
              /\ nclients' = nclients + 1
              /\ _client' = nclients + 1
              /\ pc' = [pc EXCEPT ![t] = "ping"]
              /\ UNCHANGED <<raised, resp>>
    /\ UNCHANGED <<MONGODB_URI, _db, pinged, first, dbUp, store, req, late, db, data, call>>

\* line 43: _client.admin.command('ping'), on whatever _client is now
Ping(t) ==
    /\ pc[t] = "ping"
    /\ IF dbUp
         THEN /\ pinged' = pinged \cup {_client}
              /\ pc' = [pc EXCEPT ![t] = "set_db"]
              /\ UNCHANGED <<raised, resp>>
         ELSE /\ Fail(t, FailedToConnect("ServerSelectionTimeoutError"))
              /\ UNCHANGED pinged
    /\ UNCHANGED <<MONGODB_URI, _client, _db, nclients, first, dbUp, store,
                   req, late, db, data, call>>

\* The handle _client[DATABASE_NAME] is identified by its client: the process
\* uses one database name.
Database(c) == c

\* line 44: _db = _client[DATABASE_NAME]
SetDb(t) ==
    /\ pc[t] = "set_db"
    /\ _db' = Database(_client)
    /\ pc' = [pc EXCEPT ![t] = "return"]
    /\ UNCHANGED <<MONGODB_URI, _client, nclients, pinged, first, dbUp, store,
                   req, late, db, data, raised, call, resp>>

\* line 49: return _db, assigned to the handler's local db
ReturnDb(t) ==
    /\ pc[t] = "return"
    /\ db' = [db EXCEPT ![t] = _db]
    /\ first' = (IF first = None THEN _db ELSE first)
    /\ pc' = [pc EXCEPT ![t] = "handler"]
    /\ UNCHANGED <<globals, req, late, data, raised, call, resp>>

-----------------------------------------------------------------------------
(* Requests *)

DbRoutes == {"health", "categories", "findOne", "find", "aggregate", "count"}
ApiRoutes == DbRoutes \ {"health"}

\* A request for a database-touching route arrives on an idle thread; the
\* handler's first statement is db = get_db().
Request(t, route) ==
    /\ pc[t] = "idle"
    /\ req' = [req EXCEPT ![t] = route]
    /\ late' = [late EXCEPT ![t] = (first # None)]
    /\ pc' = [pc EXCEPT ![t] = "get_db"]
    /\ UNCHANGED <<globals, first, db, data, raised, call, resp>>

HomeBody ==
    [code |-> 200,
     body |-> [message |-> "TLB Kitchen Custom Orders API", status |-> "running"]]

\* GET /
home(t) ==
    /\ pc[t] = "idle"
    /\ req' = [req EXCEPT ![t] = "home"]
    /\ Return(t, HomeBody)
    /\ UNCHANGED <<globals, first, late, db, data, call>>

\* The response has been sent; the thread serves the next request.
Finish(t) ==
    /\ pc[t] = "done"
    /\ pc' = [pc EXCEPT ![t] = "idle"]
    /\ req' = [req EXCEPT ![t] = "none"]
    /\ late' = [late EXCEPT ![t] = FALSE]
    /\ db' = [db EXCEPT ![t] = None]
    /\ data' = [data EXCEPT ![t] = NoData]
    /\ raised' = [raised EXCEPT ![t] = NoExc]
    /\ call' = [call EXCEPT ![t] = NoCall]
    /\ resp' = [resp EXCEPT ![t] = NoResp]
    /\ UNCHANGED <<globals, first>>

\* The database server becomes unreachable, or reachable again.
ToggleDb ==
    /\ dbUp' = ~dbUp
    /\ UNCHANGED <<MONGODB_URI, _client, _db, nclients, pinged, first, store,
                   pc, req, late, db, data, raised, call, resp>>

-----------------------------------------------------------------------------
(* Documents and the database driver (pymongo against the server) *)

EmptyObj == [k \in {} |-> 0]

Get(obj, key, default) == IF key \in DOMAIN obj THEN obj[key] ELSE default

\* The characters that occur in names and queries, with their code points:
\* MongoDB compares strings by code point.
Code(c) ==
    CASE c = "(" -> 40
      [] c = "." -> 46
      [] c = "A" -> 65
      [] c = "B" -> 66
      [] c = "a" -> 97
      [] c = "b" -> 98
      [] OTHER -> 122

Lower(c) == CASE c = "A" -> "a" [] c = "B" -> "b" [] OTHER -> c

\* s < t for strings (sequences of characters)
RECURSIVE StrLess(_, _)
StrLess(s, t) ==
    IF Len(t) = 0 THEN FALSE
    ELSE IF Len(s) = 0 THEN TRUE
    ELSE IF Code(Head(s)) # Code(Head(t)) THEN Code(Head(s)) < Code(Head(t))
    ELSE StrLess(Tail(s), Tail(t))

\* The server rejects a pattern it cannot compile: here an unclosed group.
RegexValid(q) == \A i \in 1..Len(q) : q[i] # "("

\* {"$regex": q, "$options": "i"}: an unanchored search; "." matches any
\* character, every other character matches itself in either case.
RegexCharMatch(p, c) == p = "." \/ Lower(p) = Lower(c)

RegexSearch(s, q) ==
    \E off \in 0..(Len(s) - Len(q)) :
        \A i \in 1..Len(q) : RegexCharMatch(q[i], s[off + i])

\* One condition of a filter on one field: an equality, or a $regex, which
\* only matches fields that hold a string.
MatchesCond(doc, field, cond) ==
    /\ field \in DOMAIN doc
    /\ IF "regex" \in DOMAIN cond
         THEN RegexSearch(doc[field], cond.regex)
         ELSE doc[field] = cond.eq

Matches(doc, filter) ==
    \A f \in DOMAIN filter : MatchesCond(doc, f, filter[f])

FilterValid(filter) ==
    \A f \in DOMAIN filter :
        "regex" \in DOMAIN filter[f] => RegexValid(filter[f].regex)

Matching(coll, filter) ==
    LET Test(d) == Matches(d, filter) IN SelectSeq(coll, Test)

\* db[collection_name]: a collection that does not exist is empty
Collection(st, name) == IF name \in DOMAIN st THEN st[name] ELSE <<>>

Take(s, n) == SubSeq(s, 1, IF n < Len(s) THEN n ELSE Len(s))
Drop(s, n) == SubSeq(s, n + 1, Len(s))

\* The outcome of a driver call that reaches the server: the server is
\* unreachable, or rejects the query, or answers.
ServerCall(up, valid, result, c) ==
    IF ~up THEN [raise |-> Raise("ServerSelectionTimeoutError", "No servers found yet"), call |-> c]
    ELSE IF ~valid THEN [raise |-> Raise("OperationFailure", "Regular expression is invalid"), call |-> c]
    ELSE [ok |-> result, call |-> c]

\* collection.find_one(filter): the first match in natural order, or None
DriverFindOne(coll, filter) ==
    LET m == Matching(coll, filter) IN IF Len(m) = 0 THEN Null ELSE m[1]

\* parse_json: json_util.dumps then json.loads; an ObjectId becomes {"$oid": ...}
ParseDoc(d) == [k \in DOMAIN d |-> IF k = "_id" THEN [oid |-> d[k]] ELSE d[k]]

parse_json(docs) == [i \in DOMAIN docs |-> ParseDoc(docs[i])]

-----------------------------------------------------------------------------
(* Request bodies *)

Missing == [missing |-> TRUE]      \* no JSON body: request.get_json() raises
ArrayBody == [array |-> TRUE]      \* a JSON array: data.get raises
NullBody == [jsonnull |-> TRUE]    \* JSON null: data is None, data.get raises
Obj(o) == [object |-> o]

\* data = request.get_json() followed by the rest of the try block, whose
\* outcome on a JSON object is o
WithBody(b, o) ==
    IF "missing" \in DOMAIN b
      THEN [raise |-> Raise("UnsupportedMediaType", "415 Unsupported Media Type"), call |-> NoCall]
    ELSE IF "array" \in DOMAIN b
      THEN [raise |-> Raise("AttributeError", "'list' object has no attribute 'get'"), call |-> NoCall]
    ELSE IF "jsonnull" \in DOMAIN b
      THEN [raise |-> Raise("AttributeError", "'NoneType' object has no attribute 'get'"), call |-> NoCall]
    ELSE o

\* The outcome o of a driver call becomes the outcome of the handler, which
\* returns r when the call answered.
Then(o, r) ==
    IF "raise" \in DOMAIN o THEN o ELSE [ret |-> r, call |-> o.call]

\* A slip: a missing document answered like a failure.
DocumentResponse_NoneIsError(result) ==
    IF result # Null
      THEN [code |-> 200, body |-> [document |-> ParseDoc(result)]]
      ELSE [code |-> 500, body |-> [error |-> "not found"]]

\* if result: return {"document": parse_json(result)} else: {"document": None}, 404
DocumentResponse(result) ==
    IF result # Null
      THEN [code |-> 200, body |-> [document |-> ParseDoc(result)]]
      ELSE [code |-> 404, body |-> [document |-> Null]]


-----------------------------------------------------------------------------
(* The handlers, after db = get_db() *)

\* A handler of thread t that has its handle runs to its return on body b.
Runs(t, route, b, o) ==
    /\ pc[t] = "handler"
    /\ req[t] = route
    /\ data' = [data EXCEPT ![t] = b]
    /\ call' = [call EXCEPT ![t] = o.call]
    /\ Finishes(t, o)
    /\ UNCHANGED <<globals, first, req, late, db>>

HealthOk ==
    [code |-> 200,
     body |-> [status |-> "healthy", api |-> "running",
               database |-> "connected", database_name |-> DATABASE_NAME]]

\* A slip: health() without its own db.command('ping').
health_body_NoPing(up) ==
    [ret |-> HealthOk, call |-> NoCall]

health_body(up) ==
    Then(ServerCall(up, TRUE, TRUE, [op |-> "ping"]), HealthOk)

\* GET /health
health(t) == Runs(t, "health", NoData, health_body(dbUp))

CategoriesFilter == ("spec_id" :> [eq |-> Categories])

get_categories_body(st, up) ==
    LET c == [op |-> "find_one", collection |-> DefaultCollection,
              filter |-> CategoriesFilter]
        o == ServerCall(up, TRUE,
                        DriverFindOne(Collection(st, DefaultCollection), CategoriesFilter), c)
    IN Then(o, DocumentResponse(o.ok))

\* GET /api/categories
get_categories(t) == Runs(t, "categories", NoData, get_categories_body(store, dbUp))

find_one_body(b, st, up) ==
    LET Body(obj) ==
          LET collection_name == Get(obj, "collection", DefaultCollection)
              filter_query == Get(obj, "filter", EmptyObj)
              c == [op |-> "find_one", collection |-> collection_name,
                    filter |-> filter_query]
              o == ServerCall(up, FilterValid(filter_query),
                              DriverFindOne(Collection(st, collection_name), filter_query), c)
          IN Then(o, DocumentResponse(o.ok))
    IN WithBody(b, Body(b.object))

\* POST /api/findOne
find_one(t, Bodies) ==
    \E b \in Bodies : Runs(t, "findOne", b, find_one_body(b, store, dbUp))

CountResponse(n) == [code |-> 200, body |-> [count |-> n]]

count_body(b, st, up) ==
    LET Body(obj) ==
          LET collection_name == Get(obj, "collection", DefaultCollection)
              filter_query == Get(obj, "filter", EmptyObj)
              c == [op |-> "count_documents", collection |-> collection_name,
                    filter |-> filter_query]
              o == ServerCall(up, FilterValid(filter_query),
                              Len(Matching(Collection(st, collection_name), filter_query)), c)
          IN Then(o, CountResponse(o.ok))
    IN WithBody(b, Body(b.object))

\* POST /api/count
count(t, Bodies) ==
    \E b \in Bodies : Runs(t, "count", b, count_body(b, store, dbUp))

-----------------------------------------------------------------------------
(* /api/find *)

\* A JSON number is [int |-> n], a JSON string [str |-> s]; Python truthiness.
Truthy(v) == IF "int" \in DOMAIN v THEN v.int # 0 ELSE Len(v.str) > 0

Abs(n) == IF n < 0 THEN 0 - n ELSE n

\* The sort key of a document: a missing field sorts before every string.
KeyLess(a, b, field) ==
    IF field \notin DOMAIN b THEN FALSE
    ELSE IF field \notin DOMAIN a THEN TRUE
    ELSE StrLess(a[field], b[field])

Before(a, b, key) ==
    IF key[2] = 1 THEN KeyLess(a, b, key[1]) ELSE KeyLess(b, a, key[1])

RECURSIVE Insert(_, _, _)
Insert(x, sorted, key) ==
    IF Len(sorted) = 0 THEN <<x>>
    ELSE IF Before(x, Head(sorted), key) THEN <<x>> \o sorted
    ELSE <<Head(sorted)>> \o Insert(x, Tail(sorted), key)

RECURSIVE SortBy(_, _)
SortBy(docs, key) ==
    IF Len(docs) = 0 THEN <<>>
    ELSE Insert(docs[Len(docs)], SortBy(SubSeq(docs, 1, Len(docs) - 1), key), key)

NewCursor(filter) == [filter |-> filter, skip |-> 0, limit |-> 0, sort |-> <<>>]

\* A slip: the options applied in the order the handler sets them, skip and
\* limit before sort.
ExecCursor_SortLast(coll, cur) ==
    LET m == Matching(coll, cur.filter)
        d == Drop(m, cur.skip)
        l == IF cur.limit = 0 THEN d ELSE Take(d, Abs(cur.limit))
    IN IF Len(cur.sort) = 0 THEN l ELSE SortBy(l, cur.sort[1])

\* list(cursor): the server filters, sorts, skips and limits, in that order,
\* whatever the order in which the options were set on the cursor; a negative
\* limit is a limit of its absolute value.
ExecCursor(coll, cur) ==
    LET m == Matching(coll, cur.filter)
        s == IF Len(cur.sort) = 0 THEN m ELSE SortBy(m, cur.sort[1])
        d == Drop(s, cur.skip)
    IN IF cur.limit = 0 THEN d ELSE Take(d, Abs(cur.limit))

DocumentsResponse(results) == [code |-> 200, body |-> [documents |-> parse_json(results)]]

find_body(b, st, up) ==
    LET Body(obj) ==
          LET collection_name == Get(obj, "collection", DefaultCollection)
              filter_query == Get(obj, "filter", EmptyObj)
              limit == Get(obj, "limit", [int |-> 0])
              skip == Get(obj, "skip", [int |-> 0])
              \* data.get('sort'): None and [] are both falsy
              sort == Get(obj, "sort", <<>>)
              c0 == NewCursor(filter_query)
              \* if skip: cursor = cursor.skip(skip)
              c1 == IF Truthy(skip) THEN [c0 EXCEPT !.skip = skip.int] ELSE c0
              \* if limit: cursor = cursor.limit(limit)
              c2 == IF Truthy(limit) THEN [c1 EXCEPT !.limit = limit.int] ELSE c1
              \* if sort: cursor = cursor.sort(sort)
              c3 == IF Len(sort) > 0 THEN [c2 EXCEPT !.sort = sort] ELSE c2
              c == [op |-> "find", collection |-> collection_name, cursor |-> c3]
              o == ServerCall(up, FilterValid(filter_query),
                              ExecCursor(Collection(st, collection_name), c3), c)
          IN IF Truthy(skip) /\ "int" \notin DOMAIN skip
               THEN [raise |-> Raise("TypeError", "skip must be an integer"), call |-> NoCall]
             ELSE IF Truthy(skip) /\ skip.int < 0
               THEN [raise |-> Raise("ValueError", "skip must be >= 0"), call |-> NoCall]
             ELSE IF Truthy(limit) /\ "int" \notin DOMAIN limit
               THEN [raise |-> Raise("TypeError", "limit must be an integer"), call |-> NoCall]
             ELSE Then(o, DocumentsResponse(o.ok))
    IN WithBody(b, Body(b.object))

\* POST /api/find
find(t, Bodies) ==
    \E b \in Bodies : Runs(t, "find", b, find_body(b, store, dbUp))

-----------------------------------------------------------------------------
(* /api/aggregate *)

\* A standard MongoDB server has no $search stage; $match holds a filter.
StageValid(stage) ==
    /\ "$search" \notin DOMAIN stage
    /\ "$match" \in DOMAIN stage => FilterValid(stage["$match"])

PipelineValid(pipeline) == \A i \in 1..Len(pipeline) : StageValid(pipeline[i])

RunStage(docs, stage) ==
    IF "$match" \in DOMAIN stage THEN Matching(docs, stage["$match"])
    ELSE IF "$limit" \in DOMAIN stage THEN Take(docs, stage["$limit"])
    ELSE IF "$skip" \in DOMAIN stage THEN Drop(docs, stage["$skip"])
    ELSE docs

\* collection.aggregate(pipeline): the stages in order
RECURSIVE DriverAggregate(_, _)
DriverAggregate(docs, pipeline) ==
    IF Len(pipeline) = 0 THEN docs
    ELSE DriverAggregate(RunStage(docs, Head(pipeline)), Tail(pipeline))

\* lines 178-187 and 189-196: the regex substitution for one sub-operator
SearchFallback(sub, coll, up, collection_name) ==
    IF "query" \notin DOMAIN sub
      THEN [raise |-> Raise("KeyError", "'query'"), call |-> NoCall]
    ELSE IF "path" \notin DOMAIN sub
      THEN [raise |-> Raise("KeyError", "'path'"), call |-> NoCall]
    ELSE LET query == sub.query
             path == sub.path
             filter_query == (path :> [regex |-> query, options |-> "i"])
             cur == [NewCursor(filter_query) EXCEPT !.limit = SearchCap]
             c == [op |-> "find", collection |-> collection_name, cursor |-> cur]
             o == ServerCall(up, FilterValid(filter_query), ExecCursor(coll, cur), c)
         IN Then(o, DocumentsResponse(o.ok))

\* A slip: the cap of the search fallback applied to every aggregation.
RunPipeline_Capped(pipeline, coll, up, collection_name) ==
    LET c == [op |-> "aggregate", collection |-> collection_name, pipeline |-> pipeline]
        o == ServerCall(up, PipelineValid(pipeline),
                        Take(DriverAggregate(coll, pipeline), SearchCap), c)
    IN Then(o, DocumentsResponse(o.ok))

\* results = list(collection.aggregate(pipeline))
RunPipeline(pipeline, coll, up, collection_name) ==
    LET c == [op |-> "aggregate", collection |-> collection_name, pipeline |-> pipeline]
        o == ServerCall(up, PipelineValid(pipeline), DriverAggregate(coll, pipeline), c)
    IN Then(o, DocumentsResponse(o.ok))

\* if pipeline and len(pipeline) > 0 and '$search' in pipeline[0]
IsSearch(pipeline) == Len(pipeline) > 0 /\ "$search" \in DOMAIN pipeline[1]

aggregate_body(b, st, up) ==
    LET Body(obj) ==
          LET collection_name == Get(obj, "collection", DefaultCollection)
              pipeline == Get(obj, "pipeline", <<>>)
              coll == Collection(st, collection_name)
          IN IF IsSearch(pipeline)
               THEN LET search_stage == pipeline[1]["$search"]
                    IN IF "autocomplete" \in DOMAIN search_stage
                         THEN SearchFallback(search_stage["autocomplete"], coll, up, collection_name)
                       ELSE IF "text" \in DOMAIN search_stage
                         THEN SearchFallback(search_stage["text"], coll, up, collection_name)
                       ELSE RunPipeline(pipeline, coll, up, collection_name)
               ELSE RunPipeline(pipeline, coll, up, collection_name)
    IN WithBody(b, Body(b.object))

\* POST /api/aggregate
aggregate(t, Bodies) ==
    \E b \in Bodies : Runs(t, "aggregate", b, aggregate_body(b, store, dbUp))

-----------------------------------------------------------------------------
(* The databases and the request bodies of the model *)

NamePool == << <<"a">>, <<"A", "b">>, <<"b", "a">>, <<".", "a">>, <<"b">>, <<"B", ".", "a">> >>

\* Document i of the default collection: the third is the categories document,
\* the others carry a name.
Doc(i, k) ==
    IF i = 3 THEN [_id |-> i, spec_id |-> Categories]
    ELSE [_id |-> i, name |-> NamePool[((i * k) % Len(NamePool)) + 1]]

Products == << [_id |-> 101, name |-> <<"b">>], [_id |-> 102, name |-> <<"a">>] >>

Store(n, k) ==
    (DefaultCollection :> [i \in 1..n |-> Doc(i, k)]) @@ ("products" :> Products)

\* k = 1 spreads the names of the pool over the documents; k = 3 repeats two
\* of them, so that a filter matches several documents and sort keys tie.
SpreadNames == {1}
RepeatedNames == {3}
LiteSizes == {0, 4}

Queries == { <<>>, <<"a">>, <<"A", "B">>, <<".">>, <<"b", ".">>, <<"(">> }

FilterOpts ==
    {EmptyObj,
     "filter" :> ("name" :> [eq |-> <<"a">>]),
     "filter" :> ("name" :> [eq |-> <<"z">>])}

SkipOpts ==
    {EmptyObj, "skip" :> [str |-> <<"a">>]}
      \cup {"skip" :> [int |-> n] : n \in (0 - 1)..MaxSkip}

LimitOpts ==
    {EmptyObj, "limit" :> [str |-> <<"a">>]}
      \cup {"limit" :> [int |-> n] : n \in (0 - 1)..MaxLimit}

SortOpts ==
    {EmptyObj, "sort" :> <<>>,
     "sort" :> << <<"name", 1>> >>, "sort" :> << <<"name", 0 - 1>> >>}

BadBodies == {Missing, ArrayBody, NullBody}

FindBodies ==
    BadBodies \cup
    {Obj(f @@ s @@ l @@ o) : f \in FilterOpts, s \in SkipOpts, l \in LimitOpts, o \in SortOpts}

SearchOps ==
    {op :> [query |-> q, path |-> "name"] : op \in {"autocomplete", "text", "phrase"}, q \in Queries}
      \cup {"autocomplete" :> [path |-> "name"], "text" :> [query |-> <<"a">>]}
      \cup {("autocomplete" :> [query |-> <<"a">>, path |-> "name"])
              @@ ("text" :> [query |-> <<"b">>, path |-> "name"])}

Stages ==
    {"$search" :> s : s \in SearchOps}
      \cup {"$match" :> ("name" :> [eq |-> <<"a">>]), "$limit" :> 1, "$skip" :> 1,
            "$limit" :> (SearchCap + 1)}

LaterStages ==
    {"$search" :> ("autocomplete" :> [query |-> <<"a">>, path |-> "name"]),
     "$match" :> ("name" :> [eq |-> <<"a">>]), "$limit" :> 1}

RECURSIVE Pipelines(_)
Pipelines(n) ==
    IF n = 0 THEN {<<>>}
    ELSE IF n = 1 THEN {<<>>} \cup {<<s>> : s \in Stages}
    ELSE Pipelines(n - 1) \cup
         {Append(p, s) : p \in {q \in Pipelines(n - 1) : Len(q) = n - 1}, s \in LaterStages}

AggregateBodies ==
    BadBodies \cup {Obj(EmptyObj)} \cup {Obj("pipeline" :> p) : p \in Pipelines(MaxStages)}

\* The few bodies the concurrent specification draws from.
LiteFilterBodies ==
    {Missing, Obj(EmptyObj), Obj("filter" :> ("name" :> [eq |-> <<"z">>]))}

LiteFindBodies ==
    {ArrayBody, Obj(("skip" :> [int |-> 1]) @@ ("limit" :> [int |-> 2]))}

LiteAggregateBodies ==
    {NullBody,
     Obj("pipeline" :> <<"$search" :> ("text" :> [query |-> <<"(">>, path |-> "name"])>>),
     Obj("pipeline" :> <<"$search" :> ("autocomplete" :> [path |-> "name"])>>),
     Obj("pipeline" :> <<"$search" :> ("autocomplete" :> [query |-> <<"a">>, path |-> "name"])>>),
     Obj("pipeline" :> <<"$limit" :> 1>>)}

-----------------------------------------------------------------------------
(* Specifications *)

InitWith(uris, sizes, patterns) ==
    /\ MONGODB_URI \in uris
    /\ _client = None
    /\ _db = None
    /\ nclients = 0
    /\ pinged = {}
    /\ first = None
    /\ dbUp \in BOOLEAN
    /\ store \in {Store(n, k) : n \in sizes, k \in patterns}
    /\ pc = [t \in Threads |-> "idle"]
    /\ req = [t \in Threads |-> "none"]
    /\ late = [t \in Threads |-> FALSE]
    /\ db = [t \in Threads |-> None]
    /\ data = [t \in Threads |-> NoData]
    /\ raised = [t \in Threads |-> NoExc]
    /\ call = [t \in Threads |-> NoCall]
    /\ resp = [t \in Threads |-> NoResp]

\* The process: Flask's threads serve requests concurrently.
Init == InitWith(Uris, LiteSizes, SpreadNames)

Next ==
    \/ \E t \in Threads, route \in DbRoutes : Request(t, route)
    \/ \E t \in Threads : home(t)
    \/ \E t \in Threads : get_db(t)
    \/ \E t \in Threads : NewClient(t)
    \/ \E t \in Threads : Ping(t)
    \/ \E t \in Threads : SetDb(t)
    \/ \E t \in Threads : ReturnDb(t)
    \/ \E t \in Threads : health(t)
    \/ \E t \in Threads : get_categories(t)
    \/ \E t \in Threads : find_one(t, LiteFilterBodies)
    \/ \E t \in Threads : find(t, LiteFindBodies)
    \/ \E t \in Threads : aggregate(t, LiteAggregateBodies)
    \/ \E t \in Threads : count(t, LiteFilterBodies)
    \/ \E t \in Threads : Finish(t)
    \/ ToggleDb

Spec == Init /\ [][Next]_vars

\* One /api/find request at a time, over every database and body of the model.
InitFind == InitWith(UriGood, 0..MaxFindDocs, RepeatedNames)

NextFind ==
    \/ Request(1, "find")
    \/ get_db(1)
    \/ NewClient(1)
    \/ Ping(1)
    \/ SetDb(1)
    \/ ReturnDb(1)
    \/ find(1, FindBodies)
    \/ Finish(1)
    \/ ToggleDb

SpecFind == InitFind /\ [][NextFind]_vars

\* One /api/aggregate request at a time.
InitAggregate == InitWith(UriGood, 0..MaxDocs, SpreadNames)

NextAggregate ==
    \/ Request(1, "aggregate")
    \/ get_db(1)
    \/ NewClient(1)
    \/ Ping(1)
    \/ SetDb(1)
    \/ ReturnDb(1)
    \/ aggregate(1, AggregateBodies)
    \/ Finish(1)
    \/ ToggleDb

SpecAggregate == InitAggregate /\ [][NextAggregate]_vars

-----------------------------------------------------------------------------
(* Properties *)

Responded(t, route) == pc[t] = "done" /\ req[t] = route

\* The database answered the driver call of thread t's handler, if it made one.
Reached(t) == raised[t].type # "ServerSelectionTimeoutError"

\* C1: whenever an exception was raised inside a database-touching API handler
\* (in get_db, reading the body, extracting fields or in the driver call), the
\* handler's response is {"error": <its message>} with status 500.
C1_ExceptionsBecomeJsonErrors ==
    \A t \in Threads :
        (pc[t] = "done" /\ req[t] \in ApiRoutes /\ raised[t] # NoExc)
            => resp[t] = [code |-> 500, body |-> [error |-> raised[t].text]]

\* A handler has answered 500 to a JSON null body, an exception of data.get.
C1_Witness ==
    \E t \in Threads :
        /\ Responded(t, "aggregate")
        /\ raised[t].type = "AttributeError"
        /\ resp[t].code = 500

\* C2: with the connection string unset, empty or the placeholder, no client is
\* ever created, no ping issued, _client and _db stay None, no handler gets a
\* handle, and every database-touching route answers 500 (health: 503) with an
\* error message.
C2_FailsClosedWithoutUri ==
    MONGODB_URI \in UriBad =>
        /\ nclients = 0 /\ pinged = {}
        /\ _client = None /\ _db = None
        /\ \A t \in Threads :
             /\ pc[t] \in {"idle", "get_db", "done"}
             /\ (pc[t] = "done" /\ req[t] \in DbRoutes) =>
                  /\ resp[t].code = (IF req[t] = "health" THEN 503 ELSE 500)
                  /\ "error" \in DOMAIN resp[t].body
                  /\ raised[t].type = "ValueError"

\* With the placeholder as connection string, /health has answered 503 while
\* another request has been answered 500.
C2_Witness ==
    /\ MONGODB_URI = Placeholder
    /\ \E t, u \in Threads :
         /\ Responded(t, "health") /\ resp[t].code = 503
         /\ Responded(u, "count") /\ resp[u].code = 500

\* C3: once a get_db() call has returned the handle, no step changes _db or
\* _client, and every get_db() call of a request that arrived later returns
\* that same handle.
C3_CachedHandleStable ==
    [][first # None =>
          /\ _db' = _db /\ _client' = _client
          /\ \A t \in Threads :
                (late[t] /\ pc[t] = "return" /\ pc'[t] = "handler") => db'[t] = first]_vars

\* C3, for the requests that arrive after a get_db() call has returned alone:
\* each of them gets the handle that call returned.
C3_LaterCallsSameHandle ==
    \A t \in Threads : (late[t] /\ pc[t] \in {"handler", "done"} /\ db[t] # None) => db[t] = first

\* C4: at most one thread is between the test of _db and the assignment to it,
\* and at most one client is ever created.
C4_SingleInitialization ==
    /\ Cardinality({t \in Threads : pc[t] \in {"MongoClient", "ping", "set_db"}}) <= 1
    /\ nclients <= 1

\* C5: the step that produces a /health response answers healthy/connected/200
\* if the database is reachable at that step and the connection string is
\* usable, and unhealthy/503 otherwise.
C5_HealthReflectsReachability ==
    [][\A t \in Threads :
          (req[t] = "health" /\ pc[t] # "done" /\ pc'[t] = "done") =>
             IF dbUp /\ MONGODB_URI \in UriGood
               THEN /\ resp'[t].code = 200
                    /\ resp'[t].body.status = "healthy"
                    /\ resp'[t].body.database = "connected"
               ELSE /\ resp'[t].code = 503
                    /\ resp'[t].body.status = "unhealthy"]_vars

\* /health has answered 503 through a handle it got from the cache.
C5_Witness ==
    \E t \in Threads :
        /\ Responded(t, "health")
        /\ db[t] # None
        /\ resp[t].code = 503
        /\ resp[t].body.status = "unhealthy"

\* The answer r of a single-document lookup in coll, where hits are the
\* positions of the documents that match: 404 and null when there is none,
\* else 200 and one of them.
LookupAnswer(r, coll, hits) ==
    IF hits = {}
      THEN r = [code |-> 404, body |-> [document |-> Null]]
      ELSE /\ r.code = 200
           /\ \E i \in hits : r.body = [document |-> ParseDoc(coll[i])]

\* C9: when /api/findOne (with a JSON object as body) or /api/categories runs
\* its lookup while the database is reachable, it answers 404 with
\* {"document": null} if no document matches and 200 with a matching document
\* otherwise; never 500.
C9_NoMatchIsNotFound ==
    [][\A t \in Threads :
          (pc[t] = "handler" /\ pc'[t] = "done" /\ dbUp) =>
             /\ req[t] = "categories" =>
                  LET coll == Collection(store, "custom-orders")
                  IN LookupAnswer(resp'[t], coll,
                        {i \in 1..Len(coll) :
                            "spec_id" \in DOMAIN coll[i] /\ coll[i]["spec_id"] = Categories})
             /\ (req[t] = "findOne" /\ "object" \in DOMAIN data'[t]) =>
                  LET obj == data'[t].object
                      name == IF "collection" \in DOMAIN obj THEN obj["collection"] ELSE "custom-orders"
                      filter == IF "filter" \in DOMAIN obj THEN obj["filter"] ELSE EmptyObj
                      coll == Collection(store, name)
                  IN LookupAnswer(resp'[t], coll,
                        {i \in 1..Len(coll) : Matches(coll[i], filter)})]_vars

\* /api/findOne has answered 404 on a collection that holds documents.
C9_Witness ==
    \E t \in Threads :
        /\ Responded(t, "findOne")
        /\ Len(store["custom-orders"]) > 0
        /\ resp[t] = [code |-> 404, body |-> [document |-> Null]]

\* C10: _db is set only if _client is the client whose ping succeeded and _db
\* is that client's handle.
C10_OnlyPingedClientCached ==
    _db # None => (_client # None /\ _client \in pinged /\ _db = Database(_client))

-----------------------------------------------------------------------------
(* Properties of /api/find *)

IntField(obj, key) == IF key \in DOMAIN obj THEN obj[key].int ELSE 0

\* A body of /api/find the claim covers: skip and limit absent or integers >= 0.
InFindDomain(b) ==
    /\ "object" \in DOMAIN b
    /\ \A key \in {"skip", "limit"} :
         key \in DOMAIN b.object =>
            ("int" \in DOMAIN b.object[key] /\ b.object[key].int >= 0)

\* The documents R are those at positions s+1 .. s+l (l = 0: to the end) of
\* the matching documents M: in the order of M when there is no sort, and in
\* an order of M by the sort key otherwise.
IsWindow(R, M, s, l, sort) ==
    /\ Len(R) = (IF Len(M) <= s THEN 0
                 ELSE IF l = 0 \/ Len(M) - s < l THEN Len(M) - s ELSE l)
    /\ IF Len(sort) = 0
         THEN \A i \in 1..Len(R) : R[i] = ParseDoc(M[s + i])
         ELSE /\ \A i, j \in 1..Len(R) : i # j => R[i] # R[j]
              /\ \A i \in 1..Len(R) :
                   \E k \in 1..Len(M) :
                      /\ R[i] = ParseDoc(M[k])
                      /\ LET ahead == {j \in 1..Len(M) : Before(M[j], M[k], sort[1])}
                             notBehind == {j \in 1..Len(M) : ~Before(M[k], M[j], sort[1])}
                         IN /\ Cardinality(ahead) <= s + i - 1
                            /\ s + i - 1 < Cardinality(notBehind)

\* C6: /api/find, answered by the database, returns with status 200 the
\* documents ranked s+1 .. s+l among those matching the filter, by the sort if
\* given and in natural order otherwise; limit 0 or absent is no cap, skip 0 or
\* absent no skipping.
C6_FindSkipThenLimit ==
    (Responded(1, "find") /\ InFindDomain(data[1]) /\ Reached(1)) =>
        LET obj == data[1].object
            filter == IF "filter" \in DOMAIN obj THEN obj["filter"] ELSE EmptyObj
            sort == IF "sort" \in DOMAIN obj THEN obj["sort"] ELSE <<>>
            M == Matching(store["custom-orders"], filter)
        IN /\ resp[1].code = 200
           /\ DOMAIN resp[1].body = {"documents"}
           /\ IsWindow(resp[1].body.documents, M,
                       IntField(obj, "skip"), IntField(obj, "limit"), sort)

\* limit=2, skip=1 with a sort on more than three documents has returned two.
C6_Witness ==
    /\ Responded(1, "find")
    /\ data[1] = Obj(("skip" :> [int |-> 1]) @@ ("limit" :> [int |-> 2])
                       @@ ("sort" :> << <<"name", 1>> >>))
    /\ Len(store["custom-orders"]) > 3
    /\ resp[1].code = 200
    /\ Len(resp[1].body.documents) = 2

-----------------------------------------------------------------------------
(* Properties of /api/aggregate *)

PipelineOf(b) == IF "pipeline" \in DOMAIN b.object THEN b.object["pipeline"] ELSE <<>>

\* The sub-operator the search fallback reads, when the first stage is a
\* $search with an autocomplete or text sub-operator that has query and path.
HasSearchSub(p) ==
    /\ Len(p) > 0
    /\ "$search" \in DOMAIN p[1]
    /\ \E op \in {"autocomplete", "text"} : op \in DOMAIN p[1]["$search"]

SearchSub(p) ==
    IF "autocomplete" \in DOMAIN p[1]["$search"]
      THEN p[1]["$search"]["autocomplete"]
      ELSE p[1]["$search"]["text"]

\* s contains q, case-insensitively
ContainsCI(s, q) ==
    \E off \in 0..(Len(s) - Len(q)) :
        \A i \in 1..Len(q) : Lower(s[off + i]) = Lower(q[i])

\* C7: when the first stage is a $search with an autocomplete or text
\* sub-operator, the handler issues no aggregation and returns the documents
\* whose path field case-insensitively contains the query string, capped at 24.
C7_SearchIsSubstringMatch ==
    (/\ Responded(1, "aggregate") /\ "object" \in DOMAIN data[1] /\ Reached(1)
     /\ HasSearchSub(PipelineOf(data[1]))
     /\ {"query", "path"} \subseteq DOMAIN SearchSub(PipelineOf(data[1]))) =>
        LET sub == SearchSub(PipelineOf(data[1]))
            Contains(d) == sub.path \in DOMAIN d /\ ContainsCI(d[sub.path], sub.query)
            found == SelectSeq(store["custom-orders"], Contains)
        IN /\ call[1].op # "aggregate"
           /\ resp[1] = [code |-> 200,
                         body |-> [documents |->
                                     parse_json(SubSeq(found, 1,
                                         IF Len(found) < 24 THEN Len(found) ELSE 24))]]

\* The part of C7 that the code keeps: for a query without the regex
\* metacharacters "." and "(", the substitution is the substring match.
C7_PlainQueries ==
    (/\ Responded(1, "aggregate") /\ "object" \in DOMAIN data[1]
     /\ HasSearchSub(PipelineOf(data[1]))
     /\ {"query", "path"} \subseteq DOMAIN SearchSub(PipelineOf(data[1])))
        => \/ \E i \in 1..Len(SearchSub(PipelineOf(data[1])).query) :
                SearchSub(PipelineOf(data[1])).query[i] \in {".", "("}
           \/ C7_SearchIsSubstringMatch

\* C8: when the first stage has no $search (or the pipeline is empty or
\* absent), or its $search has neither autocomplete nor text, the handler
\* issues one aggregation with the caller's pipeline and returns what it
\* yields, uncapped; a pipeline the server rejects is answered 500.
C8_OtherPipelinesRunVerbatim ==
    (/\ Responded(1, "aggregate") /\ "object" \in DOMAIN data[1] /\ Reached(1)
     /\ ~HasSearchSub(PipelineOf(data[1]))) =>
        LET p == PipelineOf(data[1])
        IN /\ call[1] = [op |-> "aggregate", collection |-> "custom-orders", pipeline |-> p]
           /\ IF PipelineValid(p)
                THEN resp[1] = [code |-> 200,
                                body |-> [documents |->
                                    parse_json(DriverAggregate(store["custom-orders"], p))]]
                ELSE resp[1].code = 500

\* An aggregation whose first stage is not a $search has returned more than 24
\* documents.
C8_Witness ==
    /\ Responded(1, "aggregate")
    /\ "object" \in DOMAIN data[1]
    /\ Len(PipelineOf(data[1])) > 0
    /\ resp[1].code = 200
    /\ Len(resp[1].body.documents) > 24

====
